---- MODULE Spec2Model ----
(***************************************************************************)
(* Quiz submission, scoring and leaderboard handlers of                    *)
(* src/handlers/quizzesHandlers.js, over a Firestore-like document store   *)
(* with the collections quizzes, results and users.                        *)
(*                                                                         *)
(* Each request handler is an async function: between two awaits it runs   *)
(* without interruption, and at every await other requests may run.  One   *)
(* action below is one such uninterrupted segment together with the store  *)
(* operation it waits for.                                                 *)
(***************************************************************************)
EXTENDS Integers, Sequences, FiniteSets, Bags, TLC

VARIABLES
    quizzes,        \* collection "quizzes": quizId -> document
    results,        \* collection "results": the bag of documents added
    users,          \* collection "users": userId -> document
    now,            \* the clock read by new Date(), in milliseconds
    req,            \* the submitQuizAnswers requests in flight, a bag
    arrived,        \* the number of submitQuizAnswers requests received
    lastResp,       \* the last response sent by submitQuizAnswers
    lbResp          \* response of the last getQuizLeaderboard
\* lbResp is kept until the next write to the store, so a response recorded
\* in it was computed from the present contents of the users collection.

vars == <<quizzes, results, users, now, req, arrived, lastResp, lbResp>>

----------------------------------------------------------------------------
(* Bounds of the model *)

MaxTime == 1
NumReqs == 2
MaxAnswers == 3


----------------------------------------------------------------------------
(* Documents *)

QuizIds == {"quiz1", "quiz2"}
UserIds == {"alice", "bob"}
QuestionIds == {"q1", "q2"}
OptionIds == {"o1", "o2"}
UnknownQuestionId == "q9"

Option(id, isCorrect) == [id |-> id, isCorrect |-> isCorrect]
Question(questionId, options) == [questionId |-> questionId, options |-> options]
Answer(questionId, selectedOptionId) ==
    [questionId |-> questionId, selectedOptionId |-> selectedOptionId]

\* A quiz document; exists = FALSE is the snapshot of an id with no document.
QuizDoc(questions) == [exists |-> TRUE, questions |-> questions]
NoQuiz == [exists |-> FALSE, questions |-> <<>>]

\* A user document.  hasField = FALSE: the document has no quizzesTaken field.
UserDoc(hasField, quizzesTaken) ==
    [exists |-> TRUE, hasField |-> hasField, quizzesTaken |-> quizzesTaken]
NoUser == [exists |-> FALSE, hasField |-> FALSE, quizzesTaken |-> <<>>]

\* A document of the results collection.  Its submittedAt timestamp, which
\* no handler reads, is left out.
Submission(quizId, userId, answers, score) ==
    [quizId |-> quizId, userId |-> userId, answers |-> answers, score |-> score]

UserHistoryEntry(quizId, score, completedAt) ==
    [quizId |-> quizId, score |-> score, completedAt |-> completedAt]

----------------------------------------------------------------------------
(* Scoring *)

\* questions.find((q) => q.questionId === questionId): the index of the
\* first such question from position i on, 0 if there is none.
RECURSIVE FindQuestion(_, _, _)
FindQuestion(questions, questionId, i) ==
    IF i > Len(questions) THEN 0
    ELSE IF questions[i].questionId = questionId THEN i
    ELSE FindQuestion(questions, questionId, i + 1)

\* question.options.find((option) => option.isCorrect): the index of the
\* first such option from position i on, 0 if there is none.
RECURSIVE FindCorrectOption(_, _)
FindCorrectOption(options, i) ==
    IF i > Len(options) THEN 0
    ELSE IF options[i].isCorrect THEN i
    ELSE FindCorrectOption(options, i + 1)

\* AnswerPoints with the point given for any option flagged isCorrect
\* (options.some in place of options.find).
AnswerPointsAnyCorrect(answer, questions) ==
    LET qi == FindQuestion(questions, answer.questionId, 1)
    IN  IF qi = 0 THEN 0
        ELSE LET options == questions[qi].options
             IN  IF \E k \in 1..Len(options) :
                        options[k].isCorrect /\ options[k].id = answer.selectedOptionId
                 THEN 1 ELSE 0

\* The body of the answers.forEach callback: the points one answer adds.
AnswerPoints(answer, questions) ==
    LET qi == FindQuestion(questions, answer.questionId, 1)
    IN  IF qi = 0 THEN 0
        ELSE LET options == questions[qi].options
                 oi == FindCorrectOption(options, 1)
             IN  IF oi # 0 /\ options[oi].id = answer.selectedOptionId
                 THEN 1 ELSE 0

RECURSIVE ScoreFrom(_, _, _)
ScoreFrom(answers, questions, i) ==
    IF i > Len(answers) THEN 0
    ELSE AnswerPoints(answers[i], questions) + ScoreFrom(answers, questions, i + 1)

\* calculateScore once the quiz document has been fetched and exists.
calculateScore(answers, questions) == ScoreFrom(answers, questions, 1)

----------------------------------------------------------------------------
(* The stores at start-up and the request bodies clients send *)

\* quiz1: q1 is answered by o1, q2 by o2.
Quiz1Questions ==
    << Question("q1", <<Option("o1", TRUE), Option("o2", FALSE)>>),
       Question("q2", <<Option("o1", FALSE), Option("o2", TRUE)>>) >>

\* The quizzes collection: quiz1 exists, quiz2 names no document.
QuizStore ==
    [q \in QuizIds |-> IF q = "quiz1" THEN QuizDoc(Quiz1Questions) ELSE NoQuiz]

\* The users collection at start-up.  A user id has no document, a document
\* without a quizzesTaken field, or a document whose quizzesTaken is empty.
UserStores ==
    { [u \in UserIds |-> NoUser],
      [u \in UserIds |-> IF u = "alice" THEN UserDoc(TRUE, <<>>) ELSE NoUser],
      [u \in UserIds |-> IF u = "alice" THEN UserDoc(TRUE, <<>>)
                         ELSE UserDoc(FALSE, <<>>)] }

\* The answers arrays of the request bodies: they score 1 and 0 on quiz1.
SubmittedAnswers ==
    { << Answer("q1", "o1"), Answer("q2", "o1") >>,
      << Answer(UnknownQuestionId, "o1") >> }

----------------------------------------------------------------------------
(* submitQuizAnswers *)

NoResponse == [status |-> 0, structured |-> FALSE, message |-> "", rows |-> <<>>]

\* A write reached the store: the leaderboard recorded before it is history.
ForgetLeaderboards == lbResp' = NoResponse

\* The locals of a request that has just arrived.  inserted: its Submission
\* reached the results collection.  peerAccepted: a request of the same user
\* that was in flight together with this one has been answered 200.
NewRequest(quizId, userId, answers) ==
    [pc |-> "fetch", quizId |-> quizId, userId |-> userId, answers |-> answers,
     score |-> 0, completedAt |-> 0,
     inserted |-> FALSE, peerAccepted |-> FALSE]

\* res.status(status).send(body) of request rq.  error is what the catch
\* block logged.  appended: the request's entry was added to quizzesTaken.
Response(rq, status, structured, message, error, appended) ==
    [status |-> status, structured |-> structured, message |-> message,
     score |-> IF status = 200 THEN rq.score ELSE 0, error |-> error,
     quizId |-> rq.quizId, userId |-> rq.userId,
     inserted |-> rq.inserted, appended |-> appended,
     peerAccepted |-> rq.peerAccepted]

NoSubmitResponse ==
    [status |-> 0, structured |-> FALSE, message |-> "", score |-> 0,
     error |-> "", quizId |-> "quiz1", userId |-> "alice", inserted |-> FALSE,
     appended |-> FALSE, peerAccepted |-> FALSE]

\* The catch block: every exception becomes a plain-text 500.
CatchError(rq, error, appended) ==
    Response(rq, 500, FALSE, "Internal Server Error", error, appended)

\* The success response.
Success(rq, appended) ==
    Response(rq, 200, TRUE, "Quiz answers submitted successfully", "", appended)

\* FieldValue.arrayUnion: the element is added unless an equal one is there.
arrayUnion(arr, elem) ==
    IF \E i \in 1..Len(arr) : arr[i] = elem THEN arr ELSE Append(arr, elem)

\* userRef.update({quizzesTaken: arrayUnion(entry)}) on an existing document.
UpdatedUser(doc, entry) == UserDoc(TRUE, arrayUnion(doc.quizzesTaken, entry))

\* The record db.collection("results").add() stores for request rq.
ResultRecord(rq) ==
    Submission(rq.quizId, rq.userId, rq.answers, rq.score)

\* The entry the handler hands to arrayUnion for request rq.
HistoryEntry(rq) == UserHistoryEntry(rq.quizId, rq.score, rq.completedAt)

InFlight == BagToSet(req)
Replace(rq, next) == (req (-) SetToBag({rq})) (+) SetToBag({next})
Remove(rq) == req (-) SetToBag({rq})

\* The bag B of requests with those of user userId marked peerAccepted.
MarkPeers(B, userId) ==
    LET mark(rq) == IF rq.userId = userId THEN [rq EXCEPT !.peerAccepted = TRUE] ELSE rq
        RECURSIVE Total(_)
        Total(S) == IF S = {} THEN 0
                    ELSE LET x == CHOOSE x \in S : TRUE
                         IN  B[x] + Total(S \ {x})
    IN  [m \in {mark(rq) : rq \in BagToSet(B)} |->
           Total({rq \in BagToSet(B) : mark(rq) = m})]

\* The response goes out and the request leaves the set of those in flight.
Finish(rq, response) ==
    /\ req' = IF response.status = 200 THEN MarkPeers(Remove(rq), rq.userId)
              ELSE Remove(rq)
    /\ lastResp' = response

\* A request arrives: quizId from the URL, userId and answers from the body.
\* The handler runs up to the quiz fetch of calculateScore.
SubmitQuizAnswers(quizId, userId, answers) ==
    /\ arrived < NumReqs
    /\ arrived' = arrived + 1
    /\ req' = req (+) SetToBag({NewRequest(quizId, userId, answers)})
    /\ UNCHANGED <<quizzes, results, users, now, lastResp, lbResp>>

\* The quiz fetch returns.  quizDoc.data() of a missing document is undefined,
\* so reading .questions throws and the catch block answers.  Otherwise the
\* score is computed and the results insert is issued.
FetchQuiz(rq) ==
    /\ rq.pc = "fetch"
    /\ LET quizDoc == quizzes[rq.quizId]
       IN  IF ~quizDoc.exists
           THEN Finish(rq, CatchError(rq, "TypeError", FALSE))
           ELSE /\ req' = Replace(rq, [rq EXCEPT
                             !.pc = "add",
                             !.score = calculateScore(rq.answers, quizDoc.questions)])
                /\ UNCHANGED <<lastResp>>
    /\ UNCHANGED <<quizzes, results, users, now, arrived, lbResp>>

\* AddResult with the insert not reaching the results collection.
AddResultSkipped(rq) ==
    /\ rq.pc = "add"
    /\ req' = Replace(rq, [rq EXCEPT !.pc = "update", !.completedAt = now])
    /\ ForgetLeaderboards
    /\ UNCHANGED <<quizzes, results, users, now, arrived, lastResp>>

\* The results insert completes; the user update is issued with
\* completedAt = now.
AddResult(rq) ==
    /\ rq.pc = "add"
    /\ results' = results (+) SetToBag({ResultRecord(rq)})
    /\ req' = Replace(rq, [rq EXCEPT !.pc = "update", !.completedAt = now,
                                     !.inserted = TRUE])
    /\ ForgetLeaderboards
    /\ UNCHANGED <<quizzes, users, now, arrived, lastResp>>

\* The user update completes and the handler answers 200.  update() of a
\* missing document rejects, and the catch block answers.
UpdateUser(rq) ==
    /\ rq.pc = "update"
    /\ LET doc == users[rq.userId]
           after == UpdatedUser(doc, HistoryEntry(rq))
       IN  IF ~doc.exists
           THEN /\ Finish(rq, CatchError(rq, "NOT_FOUND", FALSE))
                /\ UNCHANGED users
           ELSE /\ users' = [users EXCEPT ![rq.userId] = after]
                /\ Finish(rq, Success(rq, Len(after.quizzesTaken) > Len(doc.quizzesTaken)))
    /\ ForgetLeaderboards
    /\ UNCHANGED <<quizzes, results, now, arrived>>

\* The awaited store operation rejects (network, quota, ...): the catch block
\* answers 500.  A write whose acknowledgement was lost may have been applied.
StoreError(rq, applied) ==
    /\ applied => rq.pc \in {"add", "update"}
    /\ IF applied /\ rq.pc = "add"
       THEN results' = results (+) SetToBag({ResultRecord(rq)})
       ELSE UNCHANGED results
    /\ LET doc == users[rq.userId]
           after == IF applied /\ rq.pc = "update" /\ doc.exists
                    THEN UpdatedUser(doc, HistoryEntry(rq)) ELSE doc
       IN  /\ users' = [users EXCEPT ![rq.userId] = after]
           /\ Finish(rq, CatchError([rq EXCEPT !.inserted = @ \/ (applied /\ rq.pc = "add")],
                                     "UNAVAILABLE",
                                     Len(after.quizzesTaken) > Len(doc.quizzesTaken)))
    /\ ForgetLeaderboards
    /\ UNCHANGED <<quizzes, now, arrived>>

\* Time passes.
Tick ==
    /\ now < MaxTime
    /\ now' = now + 1
    /\ UNCHANGED <<quizzes, results, users, req, arrived, lastResp, lbResp>>

----------------------------------------------------------------------------
(* getQuizLeaderboard *)

\* The orders in which a scan of a collection may return the documents of S:
\* the handler asks for no order (no orderBy), so every order is allowed.
ScanOrders(S) ==
    { o \in [1..Cardinality(S) -> S] :
        \A i, j \in 1..Cardinality(S) : i # j => o[i] # o[j] }

RECURSIVE SumScores(_)
SumScores(entries) ==
    IF entries = <<>> THEN 0
    ELSE entries[1].score + SumScores(Tail(entries))

\* `quizzesTaken && quizzesTaken.length > 0`
HasHistory(data) == data.hasField /\ Len(data.quizzesTaken) > 0

\* Object.keys(userScores).map(...): one row per document with a non-empty
\* quizzesTaken, in the order the keys were inserted, which is the order of
\* the scan (the ids are not integer-like strings).
RECURSIVE LeaderboardRows(_)
LeaderboardRows(docs) ==
    IF docs = <<>> THEN <<>>
    ELSE LET doc == docs[1]
             rest == LeaderboardRows(Tail(docs))
         IN  IF HasHistory(doc.data)
             THEN << [userId |-> doc.id,
                      totalScore |-> SumScores(doc.data.quizzesTaken),
                      quizzesTaken |-> Len(doc.data.quizzesTaken)] >> \o rest
             ELSE rest

\* CompareRows with its operands swapped: an ascending sort.
CompareRowsAscending(a, b) == a.totalScore - b.totalScore

\* The comparator of the sort: a negative result puts a before b.
CompareRows(a, b) == b.totalScore - a.totalScore

\* One step of a stable sort: row goes behind every row it does not precede.
SortedInsert(sorted, row) ==
    LET k == Cardinality({i \in 1..Len(sorted) : CompareRows(sorted[i], row) <= 0})
    IN  SubSeq(sorted, 1, k) \o <<row>> \o SubSeq(sorted, k + 1, Len(sorted))

\* Array.prototype.sort with CompareRows; the sort is stable.
RECURSIVE SortRows(_)
SortRows(rows) ==
    IF rows = <<>> THEN <<>>
    ELSE SortedInsert(SortRows(SubSeq(rows, 1, Len(rows) - 1)), rows[Len(rows)])

\* leaderboard.map((user, index) => ({rank: index + 1, ...user}))
IndexedLeaderboard(rows) ==
    [i \in 1..Len(rows) |->
        [rank |-> i, userId |-> rows[i].userId, totalScore |-> rows[i].totalScore,
         quizzesTaken |-> rows[i].quizzesTaken]]

\* LeaderboardResponse with the 404 sent when no row was aggregated.
LeaderboardResponseNoRows(docs) ==
    IF LeaderboardRows(docs) = <<>>
    THEN [status |-> 404, structured |-> TRUE, message |-> "No users found",
          rows |-> <<>>]
    ELSE [status |-> 200, structured |-> TRUE, message |-> "",
          rows |-> IndexedLeaderboard(SortRows(LeaderboardRows(docs)))]

\* The response computed from the scanned documents.
LeaderboardResponse(docs) ==
    IF docs = <<>>
    THEN [status |-> 404, structured |-> TRUE, message |-> "No users found",
          rows |-> <<>>]
    ELSE [status |-> 200, structured |-> TRUE, message |-> "",
          rows |-> IndexedLeaderboard(SortRows(LeaderboardRows(docs)))]

LeaderboardFailure ==
    [status |-> 500, structured |-> FALSE, message |-> "Internal Server Error",
     rows |-> <<>>]

\* The whole handler: one scan of the users collection, which returns the
\* documents in the order `order`, then the aggregation and the response.
GetQuizLeaderboard(order) ==
    /\ LET docs == [i \in 1..Len(order) |-> [id |-> order[i], data |-> users[order[i]]]]
       IN  lbResp' = LeaderboardResponse(docs)
    /\ UNCHANGED <<quizzes, results, users, now, req, arrived, lastResp>>

\* The scan rejects: the catch block answers 500.
LeaderboardError ==
    /\ lbResp' = LeaderboardFailure
    /\ UNCHANGED <<quizzes, results, users, now, req, arrived, lastResp>>

----------------------------------------------------------------------------
(* The system *)

ExistingUsers == {u \in UserIds : users[u].exists}

Init ==
    /\ quizzes = QuizStore
    /\ results = EmptyBag
    /\ users \in UserStores
    /\ now = 0
    /\ req = EmptyBag
    /\ arrived = 0
    /\ lastResp = NoSubmitResponse
    /\ lbResp = NoResponse

Next ==
    \/ \E quizId \in QuizIds, userId \in UserIds, answers \in SubmittedAnswers :
            SubmitQuizAnswers(quizId, userId, answers)
    \/ \E rq \in InFlight : FetchQuiz(rq)
    \/ \E rq \in InFlight : AddResult(rq)
    \/ \E rq \in InFlight : UpdateUser(rq)
    \/ \E rq \in InFlight, applied \in BOOLEAN : StoreError(rq, applied)
    \/ Tick
    \/ \E order \in ScanOrders(ExistingUsers) : GetQuizLeaderboard(order)
    \/ LeaderboardError

Spec == Init /\ [][Next]_vars

----------------------------------------------------------------------------
(* The scoring engine alone: one request on any small quiz *)

\* The options arrays of a question: o1 and o2, each flagged or not.
OptionLists == { <<Option("o1", a), Option("o2", b)>> : a, b \in BOOLEAN }

\* The questions arrays: at most one question per question id.
ScoredQuizzes ==
    {<<>>}
    \cup { <<Question(q, os)>> : q \in QuestionIds, os \in OptionLists }
    \cup UNION { { <<Question(q1, os1), Question(q2, os2)>> :
                      q2 \in QuestionIds \ {q1},
                      os1 \in OptionLists, os2 \in OptionLists } :
                    q1 \in QuestionIds }

\* The answers arrays of at most MaxAnswers answers.
AnswerChoices ==
    { Answer(q, o) : q \in QuestionIds \cup {UnknownQuestionId}, o \in OptionIds }
AnswerArrays == UNION { [1..n -> AnswerChoices] : n \in 0..MaxAnswers }

ScoreInit ==
    /\ quizzes \in { [q \in QuizIds |-> IF q = "quiz1" THEN QuizDoc(qs) ELSE NoQuiz] :
                       qs \in ScoredQuizzes }
    /\ results = EmptyBag
    /\ users = [u \in UserIds |-> UserDoc(TRUE, <<>>)]
    /\ now = 0
    /\ req \in { SetToBag({NewRequest("quiz1", "alice", answers)}) :
                   answers \in AnswerArrays }
    /\ arrived = 1
    /\ lastResp = NoSubmitResponse
    /\ lbResp = NoResponse

ScoreNext == \E rq \in InFlight : FetchQuiz(rq)

ScoreSpec == ScoreInit /\ [][ScoreNext]_vars

----------------------------------------------------------------------------
(* Properties *)

\* The Submission records of user u, summed and counted, duplicates included.
RECURSIVE ScoreOver(_)
ScoreOver(S) ==
    IF S = {} THEN 0
    ELSE LET rec == CHOOSE x \in S : TRUE
         IN  rec.score * results[rec] + ScoreOver(S \ {rec})

RECURSIVE CountOver(_)
CountOver(S) ==
    IF S = {} THEN 0
    ELSE LET rec == CHOOSE x \in S : TRUE
         IN  results[rec] + CountOver(S \ {rec})

SubmissionsOf(u) == {rec \in BagToSet(results) : rec.userId = u}
RecordedScore(u) == ScoreOver(SubmissionsOf(u))
RecordedCount(u) == CountOver(SubmissionsOf(u))

Rows == lbResp.rows

\* C1: once every submitQuizAnswers request has been answered, each row of a
\* leaderboard has totalScore equal to the sum of the scores of the user's
\* Submission records and quizzesTaken equal to the number of those records.
LeaderboardMatchesResults ==
    (req = EmptyBag /\ lbResp.status = 200) =>
        \A i \in 1..Len(Rows) :
            /\ Rows[i].totalScore = RecordedScore(Rows[i].userId)
            /\ Rows[i].quizzesTaken = RecordedCount(Rows[i].userId)

\* C2: a request whose quizId names no quiz document, and whose quiz fetch
\* did not itself fail, is answered 404 with a structured {message} body.
MissingQuizAnswered404 ==
    ( /\ lastResp.status \in {200, 404, 500}
      /\ ~quizzes[lastResp.quizId].exists
      /\ lastResp.error # "UNAVAILABLE" )
    => (lastResp.status = 404 /\ lastResp.structured)

\* C3: when two requests of one user were in flight together and both were
\* answered 200, the user's history holds an entry for each of them.
ConcurrentAppendsKept ==
    (lastResp.status = 200 /\ lastResp.peerAccepted) =>
        Len(users[lastResp.userId].quizzesTaken) >= 2

\* C4: a request whose Submission was inserted but whose history entry was
\* not added is not answered 200.
PartialFailureSurfaced ==
    (lastResp.inserted /\ ~lastResp.appended) => lastResp.status # 200

\* The quiz a request in flight is scored against.
QuestionsOf(rq) == quizzes[rq.quizId].questions

OneCorrectOption(question) ==
    Cardinality({k \in 1..Len(question.options) : question.options[k].isCorrect}) = 1

NamesQuestion(answer, questions) ==
    \E n \in 1..Len(questions) : questions[n].questionId = answer.questionId

\* C5: on a quiz of N questions, each with exactly one option flagged
\* isCorrect, answers that all name questions of the quiz score between 0
\* and N.
ScoreWithinQuestionCount ==
    \A rq \in InFlight :
        ( /\ rq.pc = "add"
          /\ \A n \in 1..Len(QuestionsOf(rq)) : OneCorrectOption(QuestionsOf(rq)[n])
          /\ \A i \in 1..Len(rq.answers) : NamesQuestion(rq.answers[i], QuestionsOf(rq)) )
        => (0 <= rq.score /\ rq.score <= Len(QuestionsOf(rq)))

\* The answer names a question of the quiz and selects the first option of
\* that question flagged isCorrect.
SelectsFirstCorrect(answer, questions) ==
    \E n \in 1..Len(questions) :
        /\ questions[n].questionId = answer.questionId
        /\ \E k \in 1..Len(questions[n].options) :
             /\ questions[n].options[k].isCorrect
             /\ \A j \in 1..(k - 1) : ~questions[n].options[j].isCorrect
             /\ questions[n].options[k].id = answer.selectedOptionId

\* C6: the score is the number of answers that name a question of the quiz
\* and select that question's first option flagged isCorrect; answers to
\* unknown questions and to questions without a correct option add nothing.
ScoreCountsCorrectAnswers ==
    \A rq \in InFlight :
        rq.pc = "add" =>
            rq.score = Cardinality({i \in 1..Len(rq.answers) :
                                      SelectsFirstCorrect(rq.answers[i], QuestionsOf(rq))})

\* A scored request with an answer to an unknown question, an answer to a
\* question without a correct option, and an answer that earned its point.
ScoreCountsCorrectAnswersWitness ==
    \E rq \in InFlight :
        /\ rq.pc = "add"
        /\ rq.score = 1
        /\ \E i \in 1..Len(rq.answers) : ~NamesQuestion(rq.answers[i], QuestionsOf(rq))
        /\ \E i \in 1..Len(rq.answers), n \in 1..Len(QuestionsOf(rq)) :
             /\ QuestionsOf(rq)[n].questionId = rq.answers[i].questionId
             /\ \A k \in 1..Len(QuestionsOf(rq)[n].options) :
                  ~QuestionsOf(rq)[n].options[k].isCorrect

ScanSucceeded == lbResp.status \in {200, 404}

\* C7 as claimed: whenever no user has a history entry, the leaderboard is
\* answered 404 {message: "No users found"}.
NoHistoryAnswered404 ==
    (ScanSucceeded /\ \A u \in UserIds : ~HasHistory(users[u])) =>
        (lbResp.status = 404 /\ lbResp.structured /\ lbResp.message = "No users found")

\* C7 as amended: the leaderboard is answered 404 {message: "No users found"}
\* exactly when the users collection holds no document; when documents exist
\* and none has a history entry it is answered 200 with an empty array.
EmptyCollectionAnswered404 ==
    ScanSucceeded =>
        /\ ExistingUsers = {} =>
             (lbResp.status = 404 /\ lbResp.structured /\ lbResp.message = "No users found")
        /\ (ExistingUsers # {} /\ \A u \in UserIds : ~HasHistory(users[u])) =>
             (lbResp.status = 200 /\ lbResp.rows = <<>>)

\* A leaderboard of a collection whose documents all lack a history.
EmptyCollectionAnswered404Witness ==
    /\ lbResp.status = 200
    /\ lbResp.rows = <<>>
    /\ \E u \in UserIds : users[u].exists /\ users[u].hasField
    /\ \E u \in UserIds : users[u].exists /\ ~users[u].hasField

\* C8: in a 200 leaderboard the rows are in non-increasing order of
\* totalScore, the row at position i has rank i, no userId appears twice, and
\* every row is of a user with a non-empty history.
LeaderboardOrderedAndRanked ==
    lbResp.status = 200 =>
        /\ \A i, j \in 1..Len(Rows) : i < j => Rows[i].totalScore >= Rows[j].totalScore
        /\ \A i \in 1..Len(Rows) : Rows[i].rank = i
        /\ \A i, j \in 1..Len(Rows) : i # j => Rows[i].userId # Rows[j].userId
        /\ \A i \in 1..Len(Rows) : HasHistory(users[Rows[i].userId])

\* A leaderboard of two users with different totals.
LeaderboardOrderedAndRankedWitness ==
    /\ lbResp.status = 200
    /\ Len(Rows) = 2
    /\ Rows[1].totalScore > Rows[2].totalScore
    /\ Rows[2].quizzesTaken = 1

\* C9: a leaderboard requested again, with no write to the store in between,
\* is answered with the same rows in the same order.
LeaderboardRepeatable ==
    [][(lbResp.status = 200 /\ lbResp'.status = 200) => lbResp' = lbResp]_vars

\* C10: every entry of a user's quizzesTaken has a Submission record in the
\* results collection with the same userId, quizId and score.
HistoryHasSubmission ==
    \A u \in UserIds :
        \A i \in 1..Len(users[u].quizzesTaken) :
            \E rec \in BagToSet(results) :
                /\ rec.userId = u
                /\ rec.quizId = users[u].quizzesTaken[i].quizId
                /\ rec.score = users[u].quizzesTaken[i].score

\* A user with a history entry while the insert of another request of that
\* user has reached the results collection and its update has not yet.
HistoryHasSubmissionWitness ==
    \E u \in UserIds :
        /\ Len(users[u].quizzesTaken) = 1
        /\ RecordedCount(u) = 2
        /\ \E rq \in InFlight : rq.userId = u /\ rq.pc = "update"

====
